---- MODULE Spec2Model ----
(***************************************************************************)
(* Model of solar_angle.py: the solar geometry kernel (declination_angle,  *)
(* c_lst, solar_hour_angle, solar_elevation_angle, solar_azimuth_angle,    *)
(* solar_data, get_solar_vector, get_efficiency_coefficient) and the       *)
(* profile generator fetch_solar_data.                                     *)
(*                                                                         *)
(* Floats are modelled in fixed point with round-to-nearest:               *)
(*   - radians and dimensionless values in units of 1/S,                   *)
(*   - degrees in units of 1/DegUnit degree,                               *)
(*   - minutes in units of 1/MinUnit minute,                               *)
(* and the float NaN as the value NaN, which every arithmetic operation    *)
(* propagates and every comparison answers FALSE on, as IEEE-754 does.     *)
(***************************************************************************)
EXTENDS Integers, Sequences, FiniteSets, TLC

VARIABLES
    lat, long,              \* the arguments of fetch_solar_data, in degrees
    pc,                     \* "regular", "leap": the running year loop;
                            \* "returned", "raised": how fetch_solar_data ended;
                            \* "call", "done": a single call of a kernel function
    day,                    \* the day iterated last in the running loop, -1 before
    is_winter_angle,
    regular_data, leap_year_data,
    day_data,               \* the day_data of the day iterated last
    has_started,
    day_start_hour, day_start_min, day_end_hour, day_end_min,
    day_hr,
    normal_used,            \* the branch of line 293 taken for the day iterated last
    args, out               \* a single call of a kernel function and its result

vars == <<lat, long, pc, day, is_winter_angle, regular_data, leap_year_data,
          day_data, has_started, day_start_hour, day_start_min, day_end_hour,
          day_end_min, day_hr, normal_used, args, out>>

---------------------------------------------------------------------------
(* Fixed-point arithmetic *)

S == 10000
DegUnit == 100
MinUnit == 100
NaN == 0 - 1000000000

\* name = val, then the rest of the function body
Let(val, Body(_)) == Body(val)

Abs(x) == IF x < 0 THEN -x ELSE x

\* a / b rounded to the nearest integer (b > 0; \div rounds down)
Round(a, b) == (a + b \div 2) \div b

\* float comparisons: FALSE as soon as one side is NaN
Lt(x, y) == x < y /\ x # NaN /\ y # NaN
Gt(x, y) == x > y /\ x # NaN /\ y # NaN
Ge(x, y) == x >= y /\ x # NaN /\ y # NaN

\* math.pi, in units of 1/S
Pi == 31416
TwoPi == 2 * Pi
HalfPi == Pi \div 2

\* 90 and 180 degrees
Deg90 == 90 * DegUnit
Deg180 == 180 * DegUnit

rad(degrees) == IF degrees = NaN THEN NaN ELSE Round(degrees * Pi, Deg180)

deg(radians) == IF radians = NaN THEN NaN ELSE Round(radians * Deg180, Pi)

\* x * y and x / y of values in units of 1/S (y > 0)
Mul(x, y) == Round(x * y, S)
Quot(x, y) == Round(x * S, y)

\* x (1 - x2/6 (1 - x2/20 (1 - x2/42 (1 - x2/72)))), where x2 is x^2
SinSeries(x, x2) ==
    Mul(x, S - Round(x2 * (S - Round(x2 * (S - Round(x2 * (S - Round(x2, 72)),
                                                     42 * S)),
                                     20 * S)),
                     6 * S))

\* sin on [-pi/2, pi/2] by its Taylor polynomial
SinPoly(x) == SinSeries(x, Mul(x, x))

\* sin of an angle in [0, 2 pi), reduced to [-pi/2, pi/2]
SinReduced(r) ==
    SinPoly(IF r <= HalfPi THEN r ELSE IF r <= Pi + HalfPi THEN Pi - r ELSE r - TwoPi)

\* The tables are sequences: the value at v is the element of index v + 1.
SinTab == SubSeq([i \in 1..TwoPi |-> SinReduced(i - 1)], 1, TwoPi)

\* np.sin
Sin(r) == IF r = NaN THEN NaN ELSE SinTab[(r % TwoPi) + 1]

\* cos(r) = sin(r + pi/2). The cosine of a float is never exactly 0.0 (no
\* float is an odd multiple of pi/2), so a value of 0 stands for the
\* smallest magnitude of the scale
NonZero(v) == IF v = 0 THEN 1 ELSE v
CosTab == SubSeq([i \in 1..TwoPi |-> NonZero(SinTab[((i - 1 + HalfPi) % TwoPi) + 1])],
                 1, TwoPi)

\* np.cos
Cos(r) == IF r = NaN THEN NaN ELSE CosTab[(r % TwoPi) + 1]

\* the least r in lo..hi with SinTab[r] >= s (SinTab is nondecreasing on 0..pi/2)
RECURSIVE AsinSearch(_, _, _)
AsinSearch(s, lo, hi) ==
    IF lo >= hi THEN lo
    ELSE IF SinTab[(lo + hi) \div 2 + 1] >= s
         THEN AsinSearch(s, lo, (lo + hi) \div 2)
         ELSE AsinSearch(s, (lo + hi) \div 2 + 1, hi)

\* the middle of the angles whose sine rounds to s; asin(1) is pi/2
AsinTab == SubSeq([i \in 1..(S + 1) |->
                     IF i - 1 = S THEN HalfPi
                     ELSE (AsinSearch(i - 1, 0, HalfPi) + AsinSearch(i, 0, HalfPi) - 1) \div 2],
                  1, S + 1)

\* np.arcsin: nan outside [-1, 1]
Asin(s) == IF s > S \/ s < -S THEN NaN
           ELSE IF s >= 0 THEN AsinTab[s + 1] ELSE -AsinTab[1 - s]

\* np.arccos: nan outside [-1, 1]
Acos(s) == IF s > S \/ s < -S THEN NaN ELSE HalfPi - Asin(s)

\* the integer square root of n
RECURSIVE IsqrtSearch(_, _, _)
IsqrtSearch(n, lo, hi) ==
    IF lo >= hi THEN lo
    ELSE IF ((lo + hi + 1) \div 2) * ((lo + hi + 1) \div 2) <= n
         THEN IsqrtSearch(n, (lo + hi + 1) \div 2, hi)
         ELSE IsqrtSearch(n, lo, (lo + hi + 1) \div 2 - 1)

SqrtMax == 2 * S
SqrtTab == SubSeq([i \in 1..(SqrtMax + 1) |-> IsqrtSearch((i - 1) * S, 0, SqrtMax)],
                  1, SqrtMax + 1)

\* np.sqrt of a value in units of 1/S
Sqrt(v) == IF v = NaN THEN NaN ELSE SqrtTab[v + 1]

---------------------------------------------------------------------------
(* The solar geometry kernel *)

DaysRegular == 365
DaysLeap == 366

\* -23.44 degrees (line 24) and 0.0167 in units of 1/S (line 26)
Obliquity == 0 - 2344
Eccentricity == 167

declination_angle(d, is_leap_year) ==
    LET day_divisor == IF is_leap_year THEN DaysLeap ELSE DaysRegular
        inner == Sin(rad(Round(2 * Deg180 * (d - 2), day_divisor)))
        \* 360 / pi * 0.0167, in units of 1/(100 * DegUnit) degree
        amplitude == Round(Round(2 * Deg180 * S, Pi) * Eccentricity, 100)
        arg == Round(2 * Deg180 * (d + 10), day_divisor)
               + Round(amplitude * inner, 100 * S)
    IN  Asin(Mul(Sin(rad(Obliquity)), Cos(rad(arg))))

\* declination_angle, tabulated by day (it reads nothing else)
DeclTab == [leap \in BOOLEAN |->
              SubSeq([i \in 1..(DaysLeap + 1) |-> declination_angle(i - 1, leap)],
                     1, DaysLeap + 1)]

\* the coefficients of the equation of time (lines 51-55), in millionths,
\* and 229.18 minutes in units of 1/MinUnit (line 50)
Eot0 == 75
EotC1 == 1868
EotS1 == 32077
EotC2 == 14615
EotS2 == 40849
EotScale == 22918

\* lines 50-56: eot, in units of 1/MinUnit minute
EquationOfTime(fractional_year) ==
    Round(EotScale * (Eot0 + Round(EotC1 * Cos(fractional_year)
                                   - EotS1 * Sin(fractional_year)
                                   - EotC2 * Cos(2 * fractional_year)
                                   - EotS2 * Sin(2 * fractional_year), S)),
          1000000)

\* EquationOfTime, tabulated over a period of fractional_year
EotTab == SubSeq([i \in 1..TwoPi |-> EquationOfTime(i - 1)], 1, TwoPi)

c_lst(time, d, longitude, tz_offset, is_leap_year) ==
    IF longitude = NaN THEN NaN
    ELSE
    LET day_divisor == IF is_leap_year THEN DaysLeap ELSE DaysRegular
        \* day - 1 + (time / 60 - 12) / 24, in hundredths of a day
        days100 == Round((1440 * (d - 1) + time - 720) * 100, 1440)
        fractional_year == Round(Pi * days100, 50 * day_divisor)
        eot == EotTab[(fractional_year % TwoPi) + 1]
    IN  time * MinUnit + eot
        + Round(4 * (longitude - 15 * tz_offset * DegUnit) * MinUnit, DegUnit)

solar_hour_angle(time, d, longitude, tz_offset, is_leap_year) ==
    Let(c_lst(time, d, longitude, tz_offset, is_leap_year),
        LAMBDA corrected_local_solar_time :
            IF corrected_local_solar_time = NaN THEN NaN
            ELSE rad(Round(corrected_local_solar_time * DegUnit, 4 * MinUnit) - Deg180))

solar_elevation_angle(latitude, d_angle, sh_angle) ==
    IF latitude = NaN \/ d_angle = NaN \/ sh_angle = NaN THEN NaN
    ELSE Asin(Mul(Sin(rad(latitude)), Sin(d_angle))
              + Mul(Mul(Cos(rad(latitude)), Cos(d_angle)), Cos(sh_angle)))

\* solar_azimuth_angle as it would be without the equality branches of lines
\* 107-112
solar_azimuth_angle_without_equalities(latitude, d_angle, sh_angle, e_angle) ==
    LET deg_angle == deg(sh_angle)
    IN  IF deg_angle = NaN THEN [raised |-> TRUE, val |-> deg_angle]
        ELSE IF \/ deg_angle < -Deg90
                \/ (deg_angle > 0 /\ deg_angle < Deg90)
                \/ (deg_angle > -Deg90 /\ deg_angle < 0)
             THEN [raised |-> FALSE, val |-> (-sh_angle) - rad(Deg90)]
        ELSE IF deg_angle > Deg90
             THEN [raised |-> FALSE, val |-> rad(Deg180 + Deg90) - sh_angle]
        ELSE [raised |-> TRUE, val |-> deg_angle]

\* The result is [raised |-> FALSE, val |-> the angle], or raised |-> TRUE for
\* the ValueError of line 118. The a_angle of lines 98-103 is never read.
\* Every comparison of lines 107-115 is False on a nan deg_angle, which so
\* falls through to the else branch.
solar_azimuth_angle(latitude, d_angle, sh_angle, e_angle) ==
    LET deg_angle == deg(sh_angle)
    IN  IF deg_angle = NaN THEN [raised |-> TRUE, val |-> deg_angle]
        ELSE IF deg_angle = 0 THEN [raised |-> FALSE, val |-> rad(-Deg90)]
        ELSE IF deg_angle = -Deg90 THEN [raised |-> FALSE, val |-> 0]
        ELSE IF deg_angle = Deg90 THEN [raised |-> FALSE, val |-> rad(Deg180)]
        ELSE IF \/ deg_angle < -Deg90
                \/ (deg_angle > 0 /\ deg_angle < Deg90)
                \/ (deg_angle > -Deg90 /\ deg_angle < 0)
             THEN [raised |-> FALSE, val |-> (-sh_angle) - rad(Deg90)]
        ELSE IF deg_angle > Deg90
             THEN [raised |-> FALSE, val |-> rad(Deg180 + Deg90) - sh_angle]
        ELSE [raised |-> TRUE, val |-> deg_angle]

\* The result is [raised |-> FALSE, e_angle |-> ..., a_angle |-> ...], or
\* raised |-> TRUE when solar_azimuth_angle raises.
solar_data(latitude, longitude, d, time, tz_offset, is_leap_year) ==
    Let(DeclTab[is_leap_year][d + 1], LAMBDA d_angle :
    Let(solar_hour_angle(time, d, longitude, tz_offset, is_leap_year), LAMBDA sh_angle :
    Let(solar_elevation_angle(latitude, d_angle, sh_angle), LAMBDA e_angle :
    Let(solar_azimuth_angle(latitude, d_angle, sh_angle, e_angle), LAMBDA a_angle :
        IF a_angle.raised THEN [raised |-> TRUE, e_angle |-> NaN, a_angle |-> NaN]
        ELSE [raised |-> FALSE, e_angle |-> e_angle, a_angle |-> a_angle.val]))))

\* The reverse solar vector <<x, y, z>>. c and d are the same float (lines
\* 156-157) and never 0.0, so (b^2 c^2) / (d^2 + b^2 c^2) is computed with
\* numerator and denominator divided by d^2: floats keep the relative
\* precision of c^2 and d^2 however small they are, fixed point would not.
get_solar_vector(e_angle, a_angle) ==
    IF e_angle = NaN \/ a_angle = NaN THEN <<NaN, NaN, NaN>>
    ELSE
    LET a == Cos(e_angle)
        b == Sin(e_angle)
        c == Cos(a_angle)
        d == Cos(a_angle)
    IN  Let(IF d > 0 THEN Round(b * c, d) ELSE Round(-(b * c), -d), LAMBDA bcd :
        Let(Quot(Mul(bcd, bcd), S + Mul(bcd, bcd)), LAMBDA frac :
            <<Sqrt(frac), -Mul(a, Sqrt(S - frac)), Mul(b, Sqrt(S - frac))>>))

\* get_efficiency_coefficient as it would be without the division by 100 of
\* line 179
get_efficiency_coefficient_undivided(panel_normal, solar_vector) ==
    LET xa == panel_normal[1]
        ya == panel_normal[2]
        za == panel_normal[3]
        xb == solar_vector[1]
        yb == solar_vector[2]
        zb == solar_vector[3]
    IN  Let(IF xb = NaN \/ yb = NaN \/ zb = NaN THEN NaN
            ELSE Mul(Sqrt(Round(xa * xa + ya * ya + za * za, S)),
                     Sqrt(Round(xb * xb + yb * yb + zb * zb, S))), LAMBDA norms :
        Let(IF norms = NaN \/ norms = 0 THEN NaN
            ELSE Acos(Quot(Round(xa * xb + ya * yb + za * zb, S), norms)), LAMBDA angle :
        Let(deg(angle), LAMBDA deg_angle :
            IF Gt(deg_angle, Deg90) THEN [raised |-> TRUE, val |-> NaN]
            ELSE IF Lt(deg_angle, 0) THEN [raised |-> TRUE, val |-> NaN]
            ELSE [raised |-> FALSE,
                  val |-> IF deg_angle = NaN THEN NaN
                          ELSE Round((Deg90 - Abs(deg_angle)) * S, DegUnit)])))

\* The result is [raised |-> FALSE, val |-> the coefficient], or raised |-> TRUE
\* for the ValueErrors of lines 175 and 177.
get_efficiency_coefficient(panel_normal, solar_vector) ==
    LET xa == panel_normal[1]
        ya == panel_normal[2]
        za == panel_normal[3]
        xb == solar_vector[1]
        yb == solar_vector[2]
        zb == solar_vector[3]
    IN  Let(IF xb = NaN \/ yb = NaN \/ zb = NaN THEN NaN
            ELSE Mul(Sqrt(Round(xa * xa + ya * ya + za * za, S)),
                     Sqrt(Round(xb * xb + yb * yb + zb * zb, S))), LAMBDA norms :
        Let(IF norms = NaN \/ norms = 0 THEN NaN
            ELSE Acos(Quot(Round(xa * xb + ya * yb + za * zb, S), norms)), LAMBDA angle :
        Let(deg(angle), LAMBDA deg_angle :
            IF Gt(deg_angle, Deg90) THEN [raised |-> TRUE, val |-> NaN]
            ELSE IF Lt(deg_angle, 0) THEN [raised |-> TRUE, val |-> NaN]
            ELSE [raised |-> FALSE,
                  val |-> IF deg_angle = NaN THEN NaN
                          ELSE Round((Deg90 - Abs(deg_angle)) * S, 100 * DegUnit)])))

---------------------------------------------------------------------------
(* fetch_solar_data *)

winter_panel_normal == <<0, -Cos(rad(45 * DegUnit)), Sin(rad(45 * DegUnit))>>
summer_panel_normal == <<0, -Cos(rad(45 * DegUnit)), Sin(rad(45 * DegUnit))>>

\* the if/elif chains of lines 196-231 and 310-345: <<first day, last day,
\* month, day_subtractor>>
RegularMonths ==
    << <<0, 30, "01", -1>>,    <<31, 58, "02", 30>>,    <<59, 89, "03", 58>>,
       <<90, 119, "04", 89>>,  <<120, 150, "05", 119>>, <<151, 180, "06", 150>>,
       <<181, 211, "07", 180>>, <<212, 242, "08", 211>>, <<243, 272, "09", 242>>,
       <<273, 303, "10", 272>>, <<304, 333, "11", 303>>, <<334, 364, "12", 333>> >>

LeapMonths ==
    << <<0, 30, "01", -1>>,    <<31, 59, "02", 30>>,    <<60, 90, "03", 59>>,
       <<91, 120, "04", 90>>,  <<121, 151, "05", 120>>, <<152, 181, "06", 151>>,
       <<182, 212, "07", 181>>, <<213, 243, "08", 212>>, <<244, 273, "09", 243>>,
       <<274, 304, "10", 273>>, <<305, 334, "11", 304>>, <<335, 365, "12", 334>> >>

\* MonthRow as it would be with day_subtractor the first day of the month
MonthRowZeroBased(months, d) ==
    LET row == months[CHOOSE i \in 1..Len(months) :
                          d >= months[i][1] /\ d <= months[i][2]]
    IN  <<row[1], row[2], row[3], row[1]>>

\* the branch of the chain that day d takes
MonthRow(months, d) ==
    months[CHOOSE i \in 1..Len(months) : d >= months[i][1] /\ d <= months[i][2]]

\* range(5, 22), range(0, 60) and the tz_offset of lines 249 and 363
FirstHour == 5
LastHour == 21
MinutesPerHour == 60
TzOffset == 0 - 5

\* for i in range(first, last + 1): st = Body(st, i), until an exception
\* (st.raised) ends the loop. The range is run by halves, which keeps the
\* evaluation shallow; the iterations happen in ascending order of i.
RECURSIVE ForRange(_, _, _, _)
ForRange(Body(_, _), st, first, last) ==
    IF first > last THEN st
    ELSE IF first = last THEN Body(st, first)
    ELSE Let(ForRange(Body, st, first, (first + last) \div 2), LAMBDA done :
             IF done.raised THEN done
             ELSE ForRange(Body, done, (first + last) \div 2 + 1, last))

\* the call of lines 249 and 363, of <<lat, long, day, hour, min>>
SolarDataCall[a \in Int \X Int \X Int \X Int \X Int] ==
    solar_data(a[1], a[2], a[3], a[4] * 60 + a[5], TzOffset, FALSE)

\* IsValid as it would be without the azimuth conditions
IsValidElevationOnly(data) == Ge(deg(data.e_angle), 0)

\* the condition of lines 250 and 364
IsValid(data) ==
    /\ Ge(deg(data.e_angle), 0)
    /\ Lt(deg(data.a_angle), 0)
    /\ Gt(deg(data.a_angle), -Deg180)

\* a record without the key start_time or end-time
NoTime == <<>>

\* MinuteBody as it would be if a ValueError of solar_data were caught and
\* the minute skipped
MinuteBodySkippingErrors(st, hour, min, data) ==
    IF data.raised THEN st
    ELSE IF Ge(deg(data.e_angle), 0) /\ Lt(deg(data.a_angle), 0)
            /\ Gt(deg(data.a_angle), -Deg180) THEN
        IF ~st.has_started
        THEN [st EXCEPT !.angle_data = Append(@, <<data.e_angle, data.a_angle>>),
                        !.start_time = <<hour, min>>,
                        !.day_start_hour = hour,
                        !.day_start_min = min]
        ELSE [st EXCEPT !.angle_data = Append(@, <<data.e_angle, data.a_angle>>)]
    ELSE st

\* lines 250-265, for the data of one minute; st holds the locals
MinuteBody(st, hour, min, data) ==
    IF data.raised THEN [st EXCEPT !.raised = TRUE]
    ELSE IF IsValid(data) THEN
        IF ~st.has_started
        THEN [st EXCEPT !.angle_data = Append(@, <<data.e_angle, data.a_angle>>),
                        !.start_time = <<hour, min>>,
                        !.day_start_hour = hour,
                        !.day_start_min = min]
        ELSE [st EXCEPT !.angle_data = Append(@, <<data.e_angle, data.a_angle>>)]
    ELSE IF st.has_started THEN
        LET end_hour == IF min = 0 THEN hour - 1 ELSE hour
            end_min == IF min = 0 THEN 59 ELSE min
        IN  [st EXCEPT !.end_time = <<end_hour, end_min>>,
                       !.day_end_hour = end_hour,
                       !.day_end_min = end_min]
    ELSE st

\* HourBody as it would be if line 267 appended only the hours that have a
\* valid minute
HourBodySkippingEmptyHours(st, la, lo, d, row, hour) ==
    Let(ForRange(LAMBDA s, min : MinuteBody(s, hour, min,
                                            SolarDataCall[<<la, lo, d, hour, min>>]),
                 [st EXCEPT !.angle_data = <<>>,
                            !.start_time = NoTime,
                            !.end_time = NoTime],
                 0, MinutesPerHour - 1), LAMBDA done :
        IF done.raised \/ done.angle_data = <<>> THEN done
        ELSE [done EXCEPT !.day_data =
                  Append(@, [month |-> row[3], day |-> d - row[4], hour |-> hour,
                             start_time |-> done.start_time,
                             end_time |-> done.end_time,
                             angle_data |-> done.angle_data])])

\* one iteration of the loop over hour (lines 241-267)
HourBody(st, la, lo, d, row, hour) ==
    Let(ForRange(LAMBDA s, min : MinuteBody(s, hour, min,
                                            SolarDataCall[<<la, lo, d, hour, min>>]),
                 [st EXCEPT !.angle_data = <<>>,
                            !.start_time = NoTime,
                            !.end_time = NoTime],
                 0, MinutesPerHour - 1), LAMBDA done :
        IF done.raised THEN done
        ELSE [done EXCEPT !.day_data =
                  Append(@, [month |-> row[3], day |-> d - row[4], hour |-> hour,
                             start_time |-> done.start_time,
                             end_time |-> done.end_time,
                             angle_data |-> done.angle_data])])

\* lines 233-267: the locals of a day after its scan
DayScan(la, lo, d, row) ==
    ForRange(LAMBDA s, hour : HourBody(s, la, lo, d, row, hour),
             [raised |-> FALSE, has_started |-> FALSE,
              day_start_hour |-> 0, day_start_min |-> 0,
              day_end_hour |-> 0, day_end_min |-> 0,
              day_data |-> <<>>, angle_data |-> <<>>,
              start_time |-> NoTime, end_time |-> NoTime],
             FirstHour, LastHour)

\* lines 269-280: day_hr
DayHours(st) ==
    LET day_min0 == IF st.day_start_min > 0 THEN 60 - st.day_start_min ELSE 0
        day_hr0 == IF st.day_start_min > 0 THEN 11 - st.day_start_hour
                                           ELSE 12 - st.day_start_hour
        day_min == day_min0 + st.day_end_min
    IN  IF day_min > 60 THEN day_hr0 + st.day_end_hour + 1
                        ELSE day_hr0 + st.day_end_hour

\* FlipFlag as it would be if only the winter flag were ever cleared
FlipFlagOnce(flag, hr) ==
    IF flag THEN (IF hr = 12 THEN FALSE ELSE TRUE) ELSE FALSE

\* FlipFlag as it would be with day_hr != 12 for its conditions
FlipFlagOnOtherDays(flag, hr) ==
    IF flag THEN (IF hr # 12 THEN FALSE ELSE TRUE)
            ELSE (IF hr # 12 THEN TRUE ELSE FALSE)

\* lines 282-287
FlipFlag(flag, hr) ==
    IF flag THEN (IF hr = 12 THEN FALSE ELSE TRUE)
            ELSE (IF hr = 12 THEN TRUE ELSE FALSE)

\* lines 292-296, of <<is_winter_angle, e_angle, a_angle>>
CoefficientCall[a \in BOOLEAN \X Int \X Int] ==
    Let(get_solar_vector(a[2], a[3]), LAMBDA solar_vector :
        IF a[1] THEN get_efficiency_coefficient(winter_panel_normal, solar_vector)
                ELSE get_efficiency_coefficient(summer_panel_normal, solar_vector))

\* lines 291-296, for one entry of angle_data; st.val is efficiency_coefficients
CoefficientBody(st, angle_data, flag) ==
    Let(CoefficientCall[<<flag, angle_data[1], angle_data[2]>>], LAMBDA c :
        IF c.raised THEN [st EXCEPT !.raised = TRUE]
        ELSE [st EXCEPT !.val = Append(@, c.val)])

\* lines 289-298, for one entry of day_data; st.val is the entries done
RecordBody(st, hour_data, flag) ==
    Let(ForRange(LAMBDA s, i : CoefficientBody(s, hour_data.angle_data[i], flag),
                 [raised |-> FALSE, val |-> <<>>],
                 1, Len(hour_data.angle_data)), LAMBDA efficiency_coefficients :
        IF efficiency_coefficients.raised THEN [st EXCEPT !.raised = TRUE]
        ELSE [st EXCEPT !.val =
                  Append(@, [month |-> hour_data.month, day |-> hour_data.day,
                             hour |-> hour_data.hour,
                             start_time |-> hour_data.start_time,
                             end_time |-> hour_data.end_time,
                             efficiency_data |-> efficiency_coefficients.val])])

\* the branch of lines 293-296 the day's coefficients take, if it has any
NormalUsed(dd, flag) ==
    IF \A i \in 1..Len(dd) : dd[i].angle_data = <<>> THEN "none"
    ELSE IF flag THEN "winter_panel_normal" ELSE "summer_panel_normal"

\* one iteration of a loop over day, lines 233-298: the locals after it
DayIteration(la, lo, flag0, months, d) ==
    Let(DayScan(la, lo, d, MonthRow(months, d)), LAMBDA st :
    Let(DayHours(st), LAMBDA hr :
    Let(FlipFlag(flag0, hr), LAMBDA flag :
    Let(IF st.raised THEN [raised |-> TRUE, val |-> <<>>]
        ELSE ForRange(LAMBDA s, i : RecordBody(s, st.day_data[i], flag),
                      [raised |-> FALSE, val |-> <<>>],
                      1, Len(st.day_data)), LAMBDA records :
        [raised |-> records.raised,
         has_started |-> st.has_started,
         day_start_hour |-> st.day_start_hour, day_start_min |-> st.day_start_min,
         day_end_hour |-> st.day_end_hour, day_end_min |-> st.day_end_min,
         day_hr |-> hr,
         is_winter_angle |-> flag,
         normal_used |-> NormalUsed(st.day_data, flag),
         day_data |-> records.val]))))

\* one iteration of a loop over day: lines 196-300 (regular), 310-414 (leap)
DayBody(months, d, data_var) ==
    \E it \in {DayIteration(lat, long, is_winter_angle, months, d)} :
        /\ day' = d
        /\ IF it.raised
           THEN /\ pc' = "raised"
                /\ UNCHANGED <<is_winter_angle, regular_data, leap_year_data, day_data,
                               has_started, day_start_hour, day_start_min,
                               day_end_hour, day_end_min, day_hr, normal_used>>
           ELSE /\ has_started' = it.has_started
                /\ day_start_hour' = it.day_start_hour
                /\ day_start_min' = it.day_start_min
                /\ day_end_hour' = it.day_end_hour
                /\ day_end_min' = it.day_end_min
                /\ day_hr' = it.day_hr
                /\ is_winter_angle' = it.is_winter_angle
                /\ day_data' = it.day_data
                /\ normal_used' = it.normal_used
                /\ data_var' = data_var \o it.day_data
                /\ UNCHANGED pc

Lats == {40 * DegUnit, 70 * DegUnit}
Longs == {(0 - 75) * DegUnit, NaN}

Init ==
    /\ lat \in Lats
    /\ long \in Longs
    /\ pc = "regular"
    /\ day = -1
    /\ is_winter_angle = TRUE
    /\ regular_data = <<>>
    /\ leap_year_data = <<>>
    /\ day_data = <<>>
    /\ has_started = FALSE
    /\ day_start_hour = 0
    /\ day_start_min = 0
    /\ day_end_hour = 0
    /\ day_end_min = 0
    /\ day_hr = 0
    /\ normal_used = "none"
    /\ args = <<>>
    /\ out = <<>>

\* an iteration of the loop of line 195
RegularDay ==
    /\ pc = "regular"
    /\ day + 1 < DaysRegular
    /\ DayBody(RegularMonths, day + 1, regular_data)
    /\ UNCHANGED <<lat, long, leap_year_data, args, out>>

\* lines 307-308, once the loop of line 195 is over; day is dead until the
\* loop of line 309 binds it
StartLeap ==
    /\ pc = "regular"
    /\ day + 1 = DaysRegular
    /\ pc' = "leap"
    /\ day' = -1
    /\ is_winter_angle' = TRUE
    /\ leap_year_data' = <<>>
    /\ UNCHANGED <<lat, long, regular_data, day_data, has_started, day_start_hour,
                   day_start_min, day_end_hour, day_end_min, day_hr, normal_used,
                   args, out>>

\* an iteration of the loop of line 309
LeapDay ==
    /\ pc = "leap"
    /\ day + 1 < DaysLeap
    /\ DayBody(LeapMonths, day + 1, leap_year_data)
    /\ UNCHANGED <<lat, long, regular_data, args, out>>

\* line 416
Return ==
    /\ pc = "leap"
    /\ day + 1 = DaysLeap
    /\ pc' = "returned"
    /\ UNCHANGED <<lat, long, day, is_winter_angle, regular_data, leap_year_data,
                   day_data, has_started, day_start_hour, day_start_min,
                   day_end_hour, day_end_min, day_hr, normal_used, args, out>>

Next == RegularDay \/ StartLeap \/ LeapDay \/ Return

Spec == Init /\ [][Next]_vars

---------------------------------------------------------------------------
(* Single calls of the kernel functions *)

\* the hour angles of the calls, in units of 1/DegUnit degree
MaxHourAngle == 20000

\* <<latitude, d_angle, e_angle>> of the calls of solar_azimuth_angle
OtherAngles == {<<0, 0, 0>>, <<40 * DegUnit, 0 - 4000, 5000>>}

KernelLats == {0 - 90 * DegUnit, 0, 40 * DegUnit, 90 * DegUnit}
KernelLongs == {0 - 180 * DegUnit, 0 - 75 * DegUnit, 0, 180 * DegUnit}
KernelDays == {0, 172, 364}
KernelTimes == {0, 360, 720, 1080, 1439}

KernelInit ==
    /\ lat = 0
    /\ long = 0
    /\ pc = "call"
    /\ day = -1
    /\ is_winter_angle = TRUE
    /\ regular_data = <<>>
    /\ leap_year_data = <<>>
    /\ day_data = <<>>
    /\ has_started = FALSE
    /\ day_start_hour = 0
    /\ day_start_min = 0
    /\ day_end_hour = 0
    /\ day_end_min = 0
    /\ day_hr = 0
    /\ normal_used = "none"
    /\ args = <<>>
    /\ out = <<>>

\* solar_azimuth_angle(latitude, d_angle, rad(h), e_angle)
CallAzimuth ==
    /\ pc = "call"
    /\ \E h \in (0 - MaxHourAngle)..MaxHourAngle, o \in OtherAngles :
          /\ args' = <<"solar_azimuth_angle", o[1], o[2], h, o[3]>>
          /\ out' = solar_azimuth_angle(o[1], o[2], rad(h), o[3])
    /\ pc' = "done"
    /\ UNCHANGED <<lat, long, day, is_winter_angle, regular_data, leap_year_data,
                   day_data, has_started, day_start_hour, day_start_min,
                   day_end_hour, day_end_min, day_hr, normal_used>>

\* solar_data(latitude, longitude, day, time, -5, is_leap_year)
CallSolarData ==
    /\ pc = "call"
    /\ \E la \in KernelLats, lo \in KernelLongs, d \in KernelDays,
          time \in KernelTimes, leap \in BOOLEAN :
          /\ args' = <<"solar_data", la, lo, d, time, leap>>
          /\ out' = solar_data(la, lo, d, time, TzOffset, leap)
    /\ pc' = "done"
    /\ UNCHANGED <<lat, long, day, is_winter_angle, regular_data, leap_year_data,
                   day_data, has_started, day_start_hour, day_start_min,
                   day_end_hour, day_end_min, day_hr, normal_used>>

KernelNext == CallAzimuth \/ CallSolarData

KernelSpec == KernelInit /\ [][KernelNext]_vars

---------------------------------------------------------------------------
(* The properties *)

\* the values a profile and a scan are compared with, stated from the
\* calendar and from the validity condition rather than from the loops
MonthNames == <<"01", "02", "03", "04", "05", "06", "07", "08", "09", "10", "11", "12">>
MonthNumber(m) == CHOOSE i \in 1..12 : MonthNames[i] = m
MonthLengths(leap) == <<31, IF leap THEN 29 ELSE 28, 31, 30, 31, 30, 31, 31, 30, 31, 30, 31>>

\* the <<month, day of month>> of the day n days after the first of month m
RECURSIVE CalendarDate(_, _, _)
CalendarDate(leap, m, n) ==
    IF n < MonthLengths(leap)[m] THEN <<m, n + 1>>
    ELSE CalendarDate(leap, m + 1, n - MonthLengths(leap)[m])

\* record i of a profile is the record of day (i - 1) \div 17, hour 5 + (i - 1) % 17
ProfileOrdered(p, leap) ==
    \A i \in 1..Len(p) :
        /\ p[i].hour = 5 + ((i - 1) % 17)
        /\ <<MonthNumber(p[i].month), p[i].day>> = CalendarDate(leap, 1, (i - 1) \div 17)

\* the day has run through one of the two loops
DayDone == pc \in {"regular", "leap", "returned"} /\ day >= 0

\* minute min of hour hour of day d is a valid minute
ValidMinute(d, hour, min) ==
    Let(SolarDataCall[<<lat, long, d, hour, min>>], LAMBDA data :
        /\ ~data.raised
        /\ data.e_angle # NaN
        /\ data.a_angle # NaN
        /\ deg(data.e_angle) >= 0
        /\ deg(data.a_angle) > 0 - 180 * DegUnit
        /\ deg(data.a_angle) < 0)

\* the valid minutes of an hour, ascending
ValidMinutes(d, hour) ==
    SelectSeq([i \in 1..60 |-> i - 1], LAMBDA min : ValidMinute(d, hour, min))

\* the valid minutes of a day, as minutes since midnight
ValidTimes(d) ==
    {hour * 60 + min : hour \in 5..21, min \in 0..59} \cap
    {t \in 300..1319 : ValidMinute(d, t \div 60, t % 60)}

NoValidMinute(d) == \A hour \in 5..21, min \in 0..59 : ~ValidMinute(d, hour, min)

\* the coefficient of a minute under the flag
CoefficientOf(d, hour, min, flag) ==
    Let(SolarDataCall[<<lat, long, d, hour, min>>], LAMBDA data :
        CoefficientCall[<<flag, data.e_angle, data.a_angle>>])

\* some minute of day d meets a ValueError of the kernel
DomainViolation(d) ==
    \E hour \in 5..21, min \in 0..59 :
        \/ SolarDataCall[<<lat, long, d, hour, min>>].raised
        \/ /\ ValidMinute(d, hour, min)
           /\ \E flag \in BOOLEAN : CoefficientOf(d, hour, min, flag).raised

CoefficientsInRange(p) ==
    \A i \in 1..Len(p) :
        \A j \in 1..Len(p[i].efficiency_data) :
            /\ p[i].efficiency_data[j] # NaN
            /\ p[i].efficiency_data[j] >= 0
            /\ p[i].efficiency_data[j] <= (90 * S) \div 100

\* C1: when fetch_solar_data returns, the regular profile has exactly
\* 365 * 17 records and the leap profile exactly 366 * 17, each ordered by
\* day ascending and within a day by hour ascending over 5..21, with one
\* record per (day, hour) whatever the number of valid minutes; on the way
\* each day adds its 17 records.
C1_ProfileShape ==
    /\ pc = "regular" => Len(regular_data) = 17 * (day + 1)
    /\ pc = "leap" => /\ Len(regular_data) = 365 * 17
                      /\ Len(leap_year_data) = 17 * (day + 1)
    /\ pc = "returned" => /\ Len(regular_data) = 365 * 17
                          /\ Len(leap_year_data) = 366 * 17
                          /\ ProfileOrdered(regular_data, FALSE)
                          /\ ProfileOrdered(leap_year_data, TRUE)

C1_Witness ==
    /\ pc = "returned"
    /\ Len(leap_year_data) = 366 * 17
    /\ \E i \in 1..Len(regular_data) : regular_data[i].efficiency_data = <<>>
    /\ \E i \in 1..Len(regular_data) : Len(regular_data[i].efficiency_data) = 60

\* C2: every element of every efficiency_data, of each day's records and
\* of both returned profiles, is a number in [0, 0.90].
C2_CoefficientRange ==
    /\ pc # "call" => CoefficientsInRange(day_data)
    /\ pc = "returned" => /\ CoefficientsInRange(regular_data)
                          /\ CoefficientsInRange(leap_year_data)

C2_Witness ==
    /\ pc = "returned"
    /\ \E i \in 1..Len(leap_year_data) :
          /\ leap_year_data[i].efficiency_data # <<>>
          /\ leap_year_data[i].efficiency_data[1] > 0

\* C3: a day with a minute that meets a ValueError of the kernel ends
\* fetch_solar_data in the exception: nothing is appended for that day, no
\* profile is returned and no later day or year variant is run.
C3_ViolationAborts ==
    /\ (pc \in {"regular", "leap", "returned", "raised"} /\ day >= 0 /\ DomainViolation(day))
           => pc = "raised"
    /\ pc = "raised" =>
           /\ ~ENABLED Next
           /\ \/ Len(regular_data) = 17 * day /\ leap_year_data = <<>>
              \/ Len(regular_data) = 365 * 17 /\ Len(leap_year_data) = 17 * day

C3_Witness ==
    /\ pc = "raised"
    /\ day = 0
    /\ regular_data = <<>>
    /\ SolarDataCall[<<lat, long, 0, 5, 0>>].raised

\* the azimuth by hour angle alone, h in units of 1/DegUnit degree
AzimuthTable(h) ==
    IF h = 0 THEN 0 - 90 * DegUnit
    ELSE IF h = 0 - 90 * DegUnit THEN 0
    ELSE IF h = 90 * DegUnit THEN 180 * DegUnit
    ELSE IF \/ h < 0 - 90 * DegUnit
            \/ (0 < h /\ h < 90 * DegUnit)
            \/ (0 - 90 * DegUnit < h /\ h < 0)
         THEN 0 - h - 90 * DegUnit
    ELSE 270 * DegUnit - h

\* C4: for every numeric hour angle h, solar_azimuth_angle does not raise
\* and returns the angle the table gives for h, whatever latitude,
\* declination and elevation it is called with; for h = 0 that is -90
\* degrees.
C4_AzimuthTable ==
    (pc = "done" /\ args[1] = "solar_azimuth_angle") =>
        /\ ~out.raised
        /\ deg(out.val) = AzimuthTable(args[4])
        /\ args[4] = 0 => deg(out.val) = 0 - 90 * DegUnit

C4_Witness ==
    /\ pc = "done"
    /\ args[1] = "solar_azimuth_angle"
    /\ args[4] = 0
    /\ args[2] # 0
    /\ ~out.raised
    /\ deg(out.val) = 0 - 90 * DegUnit

\* C5: for latitude in [-90, 90], longitude in [-180, 180], a day of the
\* year and a minute in [0, 1439], solar_data returns an elevation in
\* [-90, 90] degrees and an azimuth in [-180, 180] degrees.
C5_SolarDataRanges ==
    (pc = "done" /\ args[1] = "solar_data") =>
        /\ ~out.raised
        /\ deg(out.e_angle) >= 0 - 90 * DegUnit
        /\ deg(out.e_angle) <= 90 * DegUnit
        /\ deg(out.a_angle) >= 0 - 180 * DegUnit
        /\ deg(out.a_angle) <= 180 * DegUnit

\* C6: after the scan of a day that has valid minutes, (day_start_hour,
\* day_start_min) is its first valid minute, (day_end_hour, day_end_min) its
\* last valid minute, and has_started is true.
C6_StartAndEnd ==
    (pc \in {"regular", "leap"} /\ day >= 0 /\ ~NoValidMinute(day)) =>
        /\ has_started
        /\ \A t \in ValidTimes(day) : day_start_hour * 60 + day_start_min <= t
        /\ day_start_hour * 60 + day_start_min \in ValidTimes(day)
        /\ \A t \in ValidTimes(day) : day_end_hour * 60 + day_end_min >= t
        /\ day_end_hour * 60 + day_end_min \in ValidTimes(day)

\* a step that runs a day through one of the two loops
DayStep == pc' \in {"regular", "leap"} /\ day' = day + 1

\* C7: the flag is true when a year variant begins; a day flips it exactly
\* when its day_hr is 12 and otherwise leaves it; and the coefficients of the
\* day are computed with the panel normal that the flag selects after that.
C7_FlagRule ==
    /\ (pc = "regular" /\ day = -1) => is_winter_angle
    /\ [][/\ (pc = "regular" /\ pc' = "leap") => (is_winter_angle' /\ day' = -1)
          /\ DayStep =>
                /\ is_winter_angle' = (IF day_hr' = 12 THEN ~is_winter_angle
                                                      ELSE is_winter_angle)
                /\ normal_used' \in {"none", IF is_winter_angle'
                                             THEN "winter_panel_normal"
                                             ELSE "summer_panel_normal"}]_vars

C7_Witness ==
    /\ pc = "leap"
    /\ day >= 0
    /\ day_hr # 12
    /\ ~is_winter_angle
    /\ normal_used = "summer_panel_normal"

\* C8: every record of a day carries the calendar date of the day: index 0
\* is January 1, the last index December 31, the month is in 1..12 and the
\* day of month in 1..length of the month, with 28 days of February in the
\* regular year and 29 in the leap year.
C8_Calendar ==
    DayDone =>
        \A k \in 1..Len(day_data) :
            LET date == <<MonthNumber(day_data[k].month), day_data[k].day>>
                leap == pc # "regular"
            IN  /\ date = CalendarDate(leap, 1, day)
                /\ date[1] \in 1..12
                /\ date[2] \in 1..MonthLengths(leap)[date[1]]
                /\ day = 0 => date = <<1, 1>>
                /\ day = (IF leap THEN 365 ELSE 364) => date = <<12, 31>>

C8_Witness ==
    /\ pc = "leap"
    /\ day = 59
    /\ Len(day_data) = 17
    /\ day_data[1].month = "02"
    /\ day_data[1].day = 29

\* C9: the efficiency_data of the record of each hour holds one coefficient
\* per valid minute of the hour, in ascending order of the minutes, and
\* nothing else: between 0 and 60 elements, none when the hour has no valid
\* minute.
C9_OnePerValidMinute ==
    DayDone =>
        /\ Len(day_data) = 17
        /\ \A k \in 1..17 :
              Let(ValidMinutes(day, 4 + k), LAMBDA minutes :
                  /\ day_data[k].hour = 4 + k
                  /\ Len(day_data[k].efficiency_data) = Len(minutes)
                  /\ Len(minutes) \in 0..60
                  /\ \A i \in 1..Len(minutes) :
                        day_data[k].efficiency_data[i] =
                            CoefficientOf(day, 4 + k, minutes[i], is_winter_angle).val)

C9_Witness ==
    /\ DayDone
    /\ Len(day_data) = 17
    /\ \E k \in 1..17 : day_data[k].efficiency_data = <<>>
    /\ \E k \in 1..17 : Len(day_data[k].efficiency_data) = 60
    /\ \E k \in 1..17 : /\ Len(day_data[k].efficiency_data) \in 1..59
                        /\ ValidMinutes(day, 4 + k)[1] > 0

\* C10: a day that has a valid minute leaves the flag as it was, and a day
\* that has none flips it.
C10_FlipOnEmptyDays ==
    [][DayStep => ((is_winter_angle' # is_winter_angle) <=> NoValidMinute(day'))]_vars

C10_Witness ==
    /\ pc = "regular"
    /\ day = 1
    /\ is_winter_angle
    /\ day_hr = 12
    /\ NoValidMinute(0)
    /\ NoValidMinute(1)

====
